---- MODULE Spec2Model ----
(***************************************************************************)
(* Model of racetrack_client/manifest/manifest.py: the pydantic schema of  *)
(* the Job manifest (GitManifest, DockerManifest, ResourcesManifest,       *)
(* Manifest), its construction from a raw document, and the accessors      *)
(* get_jobtype / get_jobtype_extra, plus the exported (dumped) form.       *)
(*                                                                         *)
(* A raw document is a partial function from keys to tagged values.  A     *)
(* validation error is a record [loc, type]; loc is the path of the        *)
(* offending field as a tuple, so <<"git", "remote">> is `git.remote`.     *)
(***************************************************************************)
EXTENDS Integers, Sequences, FiniteSets, TLC

VARIABLES doc, pc, manifest, errors, quantity_calls, jobtype_out, extra_out, dumped

vars == <<doc, pc, manifest, errors, quantity_calls, jobtype_out, extra_out, dumped>>

----------------------------------------------------------------------------
(* Bounds of the explored inputs *)

\* numeric prefixes of the quantity inputs range over 0..MaxNum
MaxNum == 1
\* number of distinct undeclared key names a document may carry per level
MaxStray == 2
\* number of optional fields a document supplies at once (SpecDefaults)
MaxSupplied == 2

----------------------------------------------------------------------------
(* Values of a raw document and of a validated model *)

Null == [t |-> "null"]
Str(s) == [t |-> "str", s |-> s]
\* a string whose characters matter (it is parsed): a tuple of characters
Txt(cs) == [t |-> "str", cs |-> cs]
Num(n) == [t |-> "int", n |-> n]
Map(m) == [t |-> "map", m |-> m]
\* an instance of one of the four model classes: every declared field has a value
Model(f) == [t |-> "model", f |-> f]
List(l) == [t |-> "list", l |-> l]
\* result when construction raised: no model instance exists
NoManifest == [t |-> "none"]
\* marker of a key left out of a document under construction
Omitted == [t |-> "omitted"]
\* marker of an accessor or export that has not been called
NotCalled == [t |-> "notcalled"]

EmptyMap == [k \in {} |-> Null]
Has(m, k) == k \in DOMAIN m
\* a document from a total choice of values: keys chosen as Omitted are left out
Strip(f) == [k \in {x \in DOMAIN f : f[x] # Omitted} |-> f[k]]
\* the document d with the keys of o added or replaced
Overlay(d, o) == [k \in (DOMAIN d) \cup (DOMAIN o) |-> IF k \in DOMAIN o THEN o[k] ELSE d[k]]

----------------------------------------------------------------------------
(* The declared schema.  kind: the annotated type; required: no default;   *)
(* default: the value stored when the key is omitted; exclude: left out of *)
(* the exported form.                                                      *)

Field(kind, required, default, exclude) ==
    [kind |-> kind, required |-> required, default |-> default, exclude |-> exclude]

GitManifest ==
    [ remote    |-> Field("str", TRUE, Null, FALSE),
      branch    |-> Field("optstr", FALSE, Null, FALSE),
      directory |-> Field("str", FALSE, Str("."), FALSE) ]

DockerManifest ==
    [ dockerfile_path |-> Field("optstr", FALSE, Null, FALSE) ]

ResourcesManifest ==
    [ memory_min |-> Field("optquantity", FALSE, Null, FALSE),
      memory_max |-> Field("optquantity", FALSE, Null, FALSE),
      cpu_min    |-> Field("optquantity", FALSE, Null, FALSE),
      cpu_max    |-> Field("optquantity", FALSE, Null, FALSE) ]

Manifest ==
    [ name                    |-> Field("str", TRUE, Null, FALSE),
      owner_email             |-> Field("str", TRUE, Null, FALSE),
      git                     |-> Field("git", TRUE, Null, FALSE),
      version                 |-> Field("str", FALSE, Str("0.0.1"), FALSE),
      jobtype                 |-> Field("optstr", FALSE, Null, FALSE),
      lang                    |-> Field("optstr", FALSE, Null, FALSE),
      extends                 |-> Field("optstr", FALSE, Null, FALSE),
      docker                  |-> Field("optdocker", FALSE, Null, FALSE),
      image_type              |-> Field("str", FALSE, Str("docker"), FALSE),
      system_dependencies     |-> Field("optlist", FALSE, Null, FALSE),
      build_env               |-> Field("optdictstr", FALSE, Null, FALSE),
      runtime_env             |-> Field("optdictstr", FALSE, Null, FALSE),
      secret_build_env_file   |-> Field("optstr", FALSE, Null, FALSE),
      secret_runtime_env_file |-> Field("optstr", FALSE, Null, FALSE),
      labels                  |-> Field("optdict", FALSE, Null, FALSE),
      public_endpoints        |-> Field("optlist", FALSE, Null, FALSE),
      replicas                |-> Field("int", FALSE, Num(1), FALSE),
      resources               |-> Field("optresources", FALSE, Null, FALSE),
      jobtype_extra           |-> Field("optdict", FALSE, Null, FALSE),
      golang                  |-> Field("optdict", FALSE, Null, FALSE),
      python                  |-> Field("optdict", FALSE, Null, FALSE),
      wrapper_properties      |-> Field("optdict", FALSE, Null, FALSE),
      infrastructure_target   |-> Field("optstr", FALSE, Null, FALSE),
      origin_yaml_            |-> Field("optstr", FALSE, Null, TRUE) ]

\* variant: the Manifest class accepts and ignores undeclared keys
ExtraForbid_manifest_ignore == [git |-> TRUE, docker |-> TRUE, resources |-> TRUE, manifest |-> FALSE]

\* extra='forbid' in the class statement of each of the four models
ExtraForbid == [git |-> TRUE, docker |-> TRUE, resources |-> TRUE, manifest |-> TRUE]

----------------------------------------------------------------------------
(* racetrack_client.utils.quantity.Quantity: the parser of `<number><suffix>` *)
(* texts.  It takes the text alone.  The amount is kept exactly, as whole     *)
(* base units plus thousandths of a base unit.                                *)

Digits == <<"0", "1", "2", "3", "4", "5", "6", "7", "8", "9">>
IsDigit(c) == \E i \in 1..10 : Digits[i] = c
DigitVal(c) == (CHOOSE i \in 1..10 : Digits[i] = c) - 1

\* byte multipliers, binary and decimal
MemorySuffixes == {<<"K", "i">>, <<"M", "i">>, <<"k">>, <<"M">>}
\* thousandths of a core
CpuSuffixes == {<<"m">>}
NoSuffix == <<>>

MemoryFactor(suffix) ==
    CASE suffix = <<"K", "i">> -> 1024
      [] suffix = <<"M", "i">> -> 1048576
      [] suffix = <<"k">> -> 1000
      [] suffix = <<"M">> -> 1000000

\* length of the longest prefix of cs made of digits
RECURSIVE NumberLen(_)
NumberLen(cs) ==
    IF cs = <<>> \/ ~IsDigit(Head(cs)) THEN 0 ELSE 1 + NumberLen(Tail(cs))

RECURSIVE NumberVal(_, _)
NumberVal(cs, acc) ==
    IF cs = <<>> THEN acc ELSE NumberVal(Tail(cs), 10 * acc + DigitVal(Head(cs)))

NumberPart(cs) == SubSeq(cs, 1, NumberLen(cs))
SuffixPart(cs) == SubSeq(cs, NumberLen(cs) + 1, Len(cs))

Raised == [t |-> "raise"]
QuantityOf(units, thousandths) == [t |-> "quantity", units |-> units, thousandths |-> thousandths]

Quantity(cs) ==
    LET n == NumberVal(NumberPart(cs), 0)
        suffix == SuffixPart(cs)
    IN  IF NumberLen(cs) = 0 THEN Raised
        ELSE IF suffix = NoSuffix THEN QuantityOf(n, 0)
        ELSE IF suffix \in CpuSuffixes THEN QuantityOf(n \div 1000, n % 1000)
        ELSE IF suffix \in MemorySuffixes THEN QuantityOf(n * MemoryFactor(suffix), 0)
        ELSE Raised

\* ordering of two quantities by amount
QuantityLeq(a, b) ==
    \/ a.units < b.units
    \/ a.units = b.units /\ a.thousandths <= b.thousandths

\* Python's str() of a document value: the decimal text of a number, a string itself
RECURSIVE IntToStr(_)
IntToStr(n) ==
    IF n < 10 THEN <<Digits[n + 1]>> ELSE IntToStr(n \div 10) \o <<Digits[(n % 10) + 1]>>

PyStr(v) == IF v.t = "int" THEN IntToStr(v.n) ELSE v.cs

----------------------------------------------------------------------------
(* Validation.  Every validator returns [errs, val, calls]: the errors it  *)
(* found, the value to store when there are none, and the Quantity texts   *)
(* it had parsed.                                                          *)

Err(loc, type) == [loc |-> loc, type |-> type]
Ok(val) == [errs |-> {}, val |-> val, calls |-> {}]
Fail(loc, type) == [errs |-> {Err(loc, type)}, val |-> Null, calls |-> {}]

\* variant: no test for None, so None is parsed as the text of str(None)
_quantity_field_without_none_test(v, loc) ==
    LET text == IF v = Null THEN <<"N", "o", "n", "e">> ELSE PyStr(v)
        q == Quantity(text)
        call == {[loc |-> loc, text |-> text]}
    IN  IF q = Raised
        THEN [errs |-> {Err(loc, "value_error")}, val |-> Null, calls |-> call]
        ELSE [errs |-> {}, val |-> q, calls |-> call]

\* ResourcesManifest._quantity_field_must_be_valid (mode='before'), then the
\* isinstance check of Optional[Quantity]
_quantity_field_must_be_valid(v, loc) ==
    IF v = Null THEN Ok(Null)
    ELSE LET q == Quantity(PyStr(v))
             call == {[loc |-> loc, text |-> PyStr(v)]}
         IN  IF q = Raised
             THEN [errs |-> {Err(loc, "value_error")}, val |-> Null, calls |-> call]
             ELSE [errs |-> {}, val |-> q, calls |-> call]

\* a field of a built-in type
ValidateField(kind, v, loc) ==
    CASE kind = "str" ->
           IF v.t = "str" THEN Ok(v) ELSE Fail(loc, "string_type")
      [] kind = "optstr" ->
           IF v = Null \/ v.t = "str" THEN Ok(v) ELSE Fail(loc, "string_type")
      [] kind = "int" ->
           IF v.t = "int" THEN Ok(v)
           ELSE IF v.t = "str" THEN Fail(loc, "int_parsing") ELSE Fail(loc, "int_type")
      [] kind = "optlist" ->
           IF v = Null \/ v.t = "list" THEN Ok(v) ELSE Fail(loc, "list_type")
      [] kind = "optdict" ->
           IF v = Null \/ v.t = "map" THEN Ok(v) ELSE Fail(loc, "dict_type")
      [] kind = "optdictstr" ->
           IF v = Null THEN Ok(v)
           ELSE IF v.t # "map" THEN Fail(loc, "dict_type")
           ELSE [errs |-> {Err(loc \o <<k>>, "string_type") : k \in {x \in DOMAIN v.m : v.m[x].t # "str"}},
                 val |-> v, calls |-> {}]
      [] kind = "optquantity" -> _quantity_field_must_be_valid(v, loc)

\* variant: an omitted field is stored as None, whatever its declared default
ValidateDeclared_default_none(schema, d, k, loc) ==
    IF Has(d, k) THEN ValidateField(schema[k].kind, d[k], loc \o <<k>>)
    ELSE IF schema[k].required THEN Fail(loc \o <<k>>, "missing")
    ELSE Ok(Null)

\* one declared field of a model against the document d
ValidateDeclared(schema, d, k, loc) ==
    IF Has(d, k) THEN ValidateField(schema[k].kind, d[k], loc \o <<k>>)
    ELSE IF schema[k].required THEN Fail(loc \o <<k>>, "missing")
    ELSE Ok(schema[k].default)

\* the keys of d that the schema does not declare, when extra='forbid'
ExtraErrors(schema, forbid, d, loc) ==
    IF forbid THEN {Err(loc \o <<k>>, "extra_forbidden") : k \in (DOMAIN d) \ (DOMAIN schema)}
    ELSE {}

\* GitManifest, DockerManifest, ResourcesManifest: models of built-in fields
ValidateSubmodel(schema, forbid, v, loc) ==
    IF v.t # "map" THEN Fail(loc, "model_type")
    ELSE LET r == [k \in DOMAIN schema |-> ValidateDeclared(schema, v.m, k, loc)]
         IN  [errs  |-> UNION {r[k].errs : k \in DOMAIN schema} \cup ExtraErrors(schema, forbid, v.m, loc),
              val   |-> Model([k \in DOMAIN schema |-> r[k].val]),
              calls |-> UNION {r[k].calls : k \in DOMAIN schema}]

ValidateTop(d, k) ==
    LET kind == Manifest[k].kind
    IN  IF ~Has(d, k) THEN ValidateDeclared(Manifest, d, k, <<>>)
        ELSE CASE kind = "git" -> ValidateSubmodel(GitManifest, ExtraForbid.git, d[k], <<k>>)
               [] kind = "optdocker" ->
                    IF d[k] = Null THEN Ok(Null)
                    ELSE ValidateSubmodel(DockerManifest, ExtraForbid.docker, d[k], <<k>>)
               [] kind = "optresources" ->
                    IF d[k] = Null THEN Ok(Null)
                    ELSE ValidateSubmodel(ResourcesManifest, ExtraForbid.resources, d[k], <<k>>)
               [] OTHER -> ValidateDeclared(Manifest, d, k, <<>>)

\* variant: validation stops at the first error
ValidateManifest_first_error(d) ==
    LET r == [k \in DOMAIN Manifest |-> ValidateTop(d, k)]
        all == UNION {r[k].errs : k \in DOMAIN Manifest} \cup ExtraErrors(Manifest, ExtraForbid.manifest, d, <<>>)
    IN  [errs  |-> IF all = {} THEN {} ELSE {CHOOSE e \in all : TRUE},
         val   |-> Model([k \in DOMAIN Manifest |-> r[k].val]),
         calls |-> UNION {r[k].calls : k \in DOMAIN Manifest}]

\* Manifest(**d): every field is validated and every error is collected
ValidateManifest(d) ==
    LET r == [k \in DOMAIN Manifest |-> ValidateTop(d, k)]
    IN  [errs  |-> UNION {r[k].errs : k \in DOMAIN Manifest} \cup ExtraErrors(Manifest, ExtraForbid.manifest, d, <<>>),
         val   |-> Model([k \in DOMAIN Manifest |-> r[k].val]),
         calls |-> UNION {r[k].calls : k \in DOMAIN Manifest}]

----------------------------------------------------------------------------
(* Accessors and export of a validated Manifest *)

\* Python truth value of an Optional[str]
Truthy(v) == v # Null /\ v # Str("")

\* variant: the deprecated field wins
get_jobtype_lang_first(self) == IF Truthy(self.f.lang) THEN self.f.lang ELSE self.f.jobtype

get_jobtype(self) == IF Truthy(self.f.jobtype) THEN self.f.jobtype ELSE self.f.lang

\* variant: a legacy container is looked at before the generic field
JobtypeExtraOrder_legacy_first == <<"golang", "jobtype_extra", "python", "wrapper_properties">>

JobtypeExtraOrder == <<"jobtype_extra", "golang", "python", "wrapper_properties">>

RECURSIVE FirstNotNone(_, _)
FirstNotNone(self, fields) ==
    IF fields = <<>> THEN Null
    ELSE IF self.f[Head(fields)] # Null THEN self.f[Head(fields)]
    ELSE FirstNotNone(self, Tail(fields))

get_jobtype_extra(self) == FirstNotNone(self, JobtypeExtraOrder)

\* variant: exclude=True is not honoured
Excluded_none(schema) == {}

\* the fields declared with Field(..., exclude=True)
Excluded(schema) == {k \in DOMAIN schema : schema[k].exclude}

DumpValue(v) ==
    IF v.t = "model" THEN Map([k \in DOMAIN v.f |-> v.f[k]]) ELSE v

\* BaseModel.model_dump() of a Manifest
model_dump(self) ==
    Map([k \in (DOMAIN Manifest) \ Excluded(Manifest) |-> DumpValue(self.f[k])])

----------------------------------------------------------------------------
(* Input documents *)

\* the smallest valid document
Base ==
    [ name |-> Str("x"), owner_email |-> Str("a@b.com"), git |-> Map([remote |-> Str("r")]) ]

StrayPool == <<"bogus_field", "bogus", "stray", "unknown">>
StrayKeys == {StrayPool[i] : i \in 1..MaxStray}
\* the document of stray keys S, each with the value 1
Strays(S) == [k \in S |-> Num(1)]

GitDocs ==
    {Map(Overlay(Strip(g), Strays(S))) :
        g \in [ remote : {Omitted, Str(""), Str("r")},
                branch : {Omitted, Str("main")},
                directory : {Omitted, Str("sub")} ],
        S \in SUBSET StrayKeys}

DockerDocs ==
    {Null, Map(EmptyMap), Map([dockerfile_path |-> Str("Dockerfile")]), Map(Strays({StrayPool[1]}))}

\* documents exercising required fields and undeclared keys at every level
SchemaDocs ==
    {Overlay(Strip(d), Strays(S)) :
        d \in [ name : {Omitted, Str(""), Str("x")},
                owner_email : {Omitted, Str(""), Str("a@b.com")},
                git : {Omitted} \cup GitDocs,
                docker : {Omitted} \cup DockerDocs,
                resources : {Omitted, Map(EmptyMap), Map(Strays({StrayPool[1]}))} ],
        S \in SUBSET StrayKeys}

\* one supplied value for every optional field; a path of length 2 is a key of `git`
SuppliedValues ==
    {[path |-> <<"version">>, v |-> Str("1.2.3")],
     [path |-> <<"jobtype">>, v |-> Str("python3")],
     [path |-> <<"lang">>, v |-> Str("python")],
     [path |-> <<"extends">>, v |-> Str("../base.yaml")],
     [path |-> <<"docker">>, v |-> Map(EmptyMap)],
     [path |-> <<"image_type">>, v |-> Str("packer")],
     [path |-> <<"system_dependencies">>, v |-> List(<<"curl">>)],
     [path |-> <<"build_env">>, v |-> Map([K |-> Str("v")])],
     [path |-> <<"runtime_env">>, v |-> Map([K |-> Str("v")])],
     [path |-> <<"secret_build_env_file">>, v |-> Str("build.env")],
     [path |-> <<"secret_runtime_env_file">>, v |-> Str("runtime.env")],
     [path |-> <<"labels">>, v |-> Map([team |-> Str("a")])],
     [path |-> <<"public_endpoints">>, v |-> List(<<"/api">>)],
     [path |-> <<"replicas">>, v |-> Num(3)],
     [path |-> <<"resources">>, v |-> Map(EmptyMap)],
     [path |-> <<"jobtype_extra">>, v |-> Map([b |-> Num(2)])],
     [path |-> <<"golang">>, v |-> Map([a |-> Num(1)])],
     [path |-> <<"python">>, v |-> Map([c |-> Num(3)])],
     [path |-> <<"wrapper_properties">>, v |-> Map([d |-> Num(4)])],
     [path |-> <<"infrastructure_target">>, v |-> Str("kubernetes")],
     [path |-> <<"origin_yaml_">>, v |-> Str("name: x")],
     [path |-> <<"origin_yaml_">>, v |-> Str("")],
     [path |-> <<"origin_yaml_">>, v |-> Null],
     [path |-> <<"git", "branch">>, v |-> Str("main")],
     [path |-> <<"git", "directory">>, v |-> Str("sub")]}

Supply(d, e) ==
    IF Len(e.path) = 1 THEN Overlay(d, [k \in {e.path[1]} |-> e.v])
    ELSE Overlay(d, [k \in {e.path[1]} |-> Map(Overlay(d[e.path[1]].m, [j \in {e.path[2]} |-> e.v]))])

\* the valid documents that supply at most n optional fields
RECURSIVE SuppliedDocs(_)
SuppliedDocs(n) ==
    IF n = 0 THEN {Base}
    ELSE LET prev == SuppliedDocs(n - 1)
         IN  prev \cup {Supply(d, e) : d \in prev, e \in SuppliedValues}

DefaultsDocs == SuppliedDocs(MaxSupplied)

\* documents exercising the deprecated-field fallbacks
AccessorDocs ==
    {Overlay(Base, Strip(d)) :
        d \in [ jobtype : {Omitted, Null, Str(""), Str("custom")},
                lang : {Omitted, Str(""), Str("python")},
                jobtype_extra : {Omitted, Null, Map(EmptyMap), Map([b |-> Num(2)])},
                golang : {Omitted, Null, Map(EmptyMap), Map([a |-> Num(1)])},
                python : {Omitted, Null, Map(EmptyMap), Map([c |-> Num(3)])},
                wrapper_properties : {Omitted, Null, Map(EmptyMap), Map([d |-> Num(4)])} ]}

\* suffixes tried in the inputs: one of each family and an unknown one
InputSuffixes == {<<"m">>, <<"K", "i">>, <<"x">>}

\* what a document may give for a resource bound
QuantityInputs ==
    {Omitted, Null}
      \cup {Num(n) : n \in 0..MaxNum}
      \cup {Txt(IntToStr(n) \o sfx) : n \in 0..MaxNum, sfx \in InputSuffixes}
      \cup {Txt(<<>>)}

ResourcesDocs ==
    {Overlay(Base, [resources |-> Map(Strip(r))]) :
        r \in [ memory_min : QuantityInputs, memory_max : QuantityInputs,
                cpu_min : QuantityInputs, cpu_max : QuantityInputs ]}

----------------------------------------------------------------------------
(* The state machine: a document is handed to Manifest(...), and a         *)
(* Manifest that exists is queried and exported.                           *)

Start(docs) ==
    /\ doc \in docs
    /\ pc = "raw"
    /\ manifest = NoManifest
    /\ errors = {}
    /\ quantity_calls = {}
    /\ jobtype_out = NotCalled
    /\ extra_out = NotCalled
    /\ dumped = NotCalled

Init == Start(SchemaDocs)
InitDefaults == Start(DefaultsDocs)
InitAccessors == Start(AccessorDocs)
InitResources == Start(ResourcesDocs)

\* Manifest(**doc): a Manifest, or a ValidationError carrying every error
Validate ==
    /\ pc = "raw"
    /\ LET r == ValidateManifest(doc)
       IN  /\ errors' = r.errs
           /\ quantity_calls' = r.calls
           /\ manifest' = IF r.errs = {} THEN r.val ELSE NoManifest
           /\ pc' = IF r.errs = {} THEN "valid" ELSE "invalid"
    /\ UNCHANGED <<doc, jobtype_out, extra_out, dumped>>

GetJobtype ==
    /\ pc = "valid"
    /\ jobtype_out' = get_jobtype(manifest)
    /\ UNCHANGED <<doc, pc, manifest, errors, quantity_calls, extra_out, dumped>>

GetJobtypeExtra ==
    /\ pc = "valid"
    /\ extra_out' = get_jobtype_extra(manifest)
    /\ UNCHANGED <<doc, pc, manifest, errors, quantity_calls, jobtype_out, dumped>>

ModelDump ==
    /\ pc = "valid"
    /\ dumped' = model_dump(manifest)
    /\ UNCHANGED <<doc, pc, manifest, errors, quantity_calls, jobtype_out, extra_out>>

Next == Validate \/ GetJobtype \/ GetJobtypeExtra \/ ModelDump

Spec == Init /\ [][Next]_vars
SpecDefaults == InitDefaults /\ [][Next]_vars
SpecAccessors == InitAccessors /\ [][Next]_vars
SpecResources == InitResources /\ [][Next]_vars

TypeOK == pc \in {"raw", "valid", "invalid"}

----------------------------------------------------------------------------
(* Properties of construction: undeclared keys, required fields, errors *)

SubmodelKeys == {"git", "docker", "resources"}
DeclaredIn(k) ==
    CASE k = "git" -> {"remote", "branch", "directory"}
      [] k = "docker" -> {"dockerfile_path"}
      [] k = "resources" -> {"memory_min", "memory_max", "cpu_min", "cpu_max"}

\* the paths of the keys of d that are not declared, at the top level and
\* inside the git, docker and resources objects
UndeclaredLocs(d) ==
    {<<k>> : k \in (DOMAIN d) \ (DOMAIN Manifest)}
      \cup UNION {{<<k, j>> : j \in (DOMAIN d[k].m) \ DeclaredIn(k)} :
                   k \in {x \in SubmodelKeys \cap DOMAIN d : d[x].t = "map"}}

\* the paths of the required fields that d leaves out
MissingLocs(d) ==
    {<<k>> : k \in {"name", "owner_email", "git"} \ DOMAIN d}
      \cup (IF Has(d, "git") /\ d.git.t = "map" /\ ~Has(d.git.m, "remote")
            THEN {<<"git", "remote">>} ELSE {})

\* C1: a document with any undeclared key, at the top level or inside git,
\* docker or resources, is rejected with a validation error and no Manifest
\* is produced.
C1_UndeclaredKeyRejected ==
    (pc # "raw" /\ UndeclaredLocs(doc) # {}) =>
        /\ pc = "invalid"
        /\ manifest = NoManifest
        /\ \A loc \in UndeclaredLocs(doc) : Err(loc, "extra_forbidden") \in errors

\* C1 witness: the otherwise valid document plus the key bogus_field was rejected
C1_Witness ==
    /\ doc = Overlay(Base, Strays({"bogus_field"}))
    /\ pc = "invalid"
    /\ manifest = NoManifest
    /\ errors = {Err(<<"bogus_field">>, "extra_forbidden")}

NonEmptyStr(d, k) == Has(d, k) /\ d[k].t = "str" /\ d[k] # Str("")

\* C4 as stated: a Manifest is produced only if name, owner_email and
\* git.remote are present and non-empty, and a document whose git object lacks
\* remote is rejected with an error at git.remote.
C4_RequiredPresentAndNonEmpty ==
    /\ pc = "valid" =>
          /\ NonEmptyStr(doc, "name")
          /\ NonEmptyStr(doc, "owner_email")
          /\ Has(doc, "git") /\ NonEmptyStr(doc.git.m, "remote")
    /\ (pc # "raw" /\ <<"git", "remote">> \in MissingLocs(doc)) =>
          /\ pc = "invalid"
          /\ Err(<<"git", "remote">>, "missing") \in errors

\* C7: the validation failure lists one error per offending field, each
\* with its full path: the paths of the errors are exactly the undeclared
\* keys and the missing required fields of the document, one error each.
C7_ErrorsExhaustive ==
    pc # "raw" =>
        /\ {e.loc : e \in errors} = UndeclaredLocs(doc) \cup MissingLocs(doc)
        /\ Cardinality(errors) = Cardinality(UndeclaredLocs(doc) \cup MissingLocs(doc))

\* C7 witness: two unknown top-level keys, an unknown key under git and a
\* missing required field gave four errors
C7_Witness ==
    /\ pc = "invalid"
    /\ errors = { Err(<<"bogus_field">>, "extra_forbidden"),
                  Err(<<"bogus">>, "extra_forbidden"),
                  Err(<<"git", "bogus">>, "extra_forbidden"),
                  Err(<<"name">>, "missing") }

----------------------------------------------------------------------------
(* Properties of defaults and of the exported form (SpecDefaults) *)

RequiredTop == {"name", "owner_email", "git"}
OptionalTop == (DOMAIN Manifest) \ RequiredTop
ModelKinds == {"git", "optdocker", "optresources"}

\* what the document's value for k was stored as: itself, or a model instance
StoredAsGiven(d, f, k) ==
    IF d[k].t = "map" /\ f[k].t = "model" THEN TRUE ELSE f[k] = d[k]

\* the Manifest follows the document where it supplies an optional field, and
\* the defaults D (top level) and G (git) where it omits one
FollowsDefaults(D, G) ==
    /\ \A k \in OptionalTop :
          IF Has(doc, k) THEN StoredAsGiven(doc, manifest.f, k)
          ELSE manifest.f[k] = D[k]
    /\ \A k \in {"branch", "directory"} :
          IF Has(doc.git.m, k) THEN manifest.f.git.f[k] = doc.git.m[k]
          ELSE manifest.f.git.f[k] = G[k]

GitDefaults == [branch |-> Null, directory |-> Str(".")]

\* every omitted optional field is None, but for replicas and version
StatedDefaults ==
    [k \in OptionalTop |->
        CASE k = "replicas" -> Num(1)
          [] k = "version" -> Str("0.0.1")
          [] OTHER -> Null]

\* and but for image_type, which is "docker"
DeclaredDefaults ==
    [k \in OptionalTop |->
        CASE k = "replicas" -> Num(1)
          [] k = "version" -> Str("0.0.1")
          [] k = "image_type" -> Str("docker")
          [] OTHER -> Null]

\* C5 as stated: in the Manifest of a valid document, an omitted replicas is
\* 1, an omitted version is "0.0.1", an omitted git.directory is ".", every
\* other omitted optional field is None, and a supplied value is stored.
C5_DefaultsAsStated == pc = "valid" => FollowsDefaults(StatedDefaults, GitDefaults)

\* C5 amended: as C5, except that an omitted image_type is "docker", not None.
C5_Defaults == pc = "valid" => FollowsDefaults(DeclaredDefaults, GitDefaults)

\* C5 witness: the smallest valid document was given its defaults
C5_Witness ==
    /\ doc = Base
    /\ pc = "valid"
    /\ manifest.f.replicas = Num(1)
    /\ manifest.f.version = Str("0.0.1")
    /\ manifest.f.git.f.directory = Str(".")
    /\ manifest.f.image_type = Str("docker")
    /\ manifest.f.jobtype = Null

\* C6: whatever origin_yaml_ holds, the exported form of a Manifest has no
\* origin_yaml_ entry and has an entry for every other declared field.
C6_OriginYamlNotExported ==
    dumped # NotCalled =>
        /\ ~Has(dumped.m, "origin_yaml_")
        /\ \A k \in (DOMAIN Manifest) \ {"origin_yaml_"} :
              /\ Has(dumped.m, k)
              /\ manifest.f[k].t # "model" => dumped.m[k] = manifest.f[k]

\* C6 witness: a Manifest that retains its raw text was exported
C6_Witness ==
    /\ dumped # NotCalled
    /\ manifest.f.origin_yaml_ = Str("name: x")
    /\ DOMAIN dumped.m = (DOMAIN Manifest) \ {"origin_yaml_"}

----------------------------------------------------------------------------
(* Properties of the accessors (SpecAccessors) *)

\* C2 as stated: get_jobtype() returns jobtype whenever jobtype is not None,
\* whatever its string value, and lang otherwise (None when both are absent).
C2_JobtypeWheneverNotNone ==
    jobtype_out # NotCalled =>
        jobtype_out = IF manifest.f.jobtype # Null THEN manifest.f.jobtype ELSE manifest.f.lang

\* C2 amended: get_jobtype() returns jobtype whenever jobtype is a non-empty
\* string, and lang when jobtype is None or the empty string (None when lang
\* is absent too).
C2_JobtypeWheneverNonEmpty ==
    jobtype_out # NotCalled =>
        jobtype_out = IF manifest.f.jobtype \notin {Null, Str("")}
                      THEN manifest.f.jobtype ELSE manifest.f.lang

\* C2 witness: jobtype "custom" and lang "python" resolved to "custom"
C2_Witness ==
    /\ manifest # NoManifest
    /\ manifest.f.jobtype = Str("custom")
    /\ manifest.f.lang = Str("python")
    /\ jobtype_out = Str("custom")

\* C3: get_jobtype_extra() returns the first of jobtype_extra, golang, python,
\* wrapper_properties that is not None (an empty mapping is returned), and
\* None when all four are None.
C3_FirstNotNoneInOrder ==
    extra_out # NotCalled =>
        LET f == manifest.f
        IN  extra_out = IF f.jobtype_extra # Null THEN f.jobtype_extra
                        ELSE IF f.golang # Null THEN f.golang
                        ELSE IF f.python # Null THEN f.python
                        ELSE IF f.wrapper_properties # Null THEN f.wrapper_properties
                        ELSE Null

\* C3 witness: with golang and jobtype_extra both set, jobtype_extra was returned
C3_Witness ==
    /\ manifest # NoManifest
    /\ manifest.f.golang = Map([a |-> Num(1)])
    /\ manifest.f.jobtype_extra = Map([b |-> Num(2)])
    /\ extra_out = Map([b |-> Num(2)])

----------------------------------------------------------------------------
(* Properties of the resource bounds (SpecResources) *)

ResourceFields == {"memory_min", "memory_max", "cpu_min", "cpu_max"}
MemoryFields == {"memory_min", "memory_max"}
CpuFields == {"cpu_min", "cpu_max"}

\* the document gives the bound k a value other than None
Given(k) == Has(doc.resources.m, k) /\ doc.resources.m[k] # Null
GivenText(k) == PyStr(doc.resources.m[k])
Parsed(k) == \E c \in quantity_calls : c.loc = <<"resources", k>>

\* C8: a bound that is given is parsed by Quantity, from its text, before it
\* is stored, and one that is absent stays None without the parser being
\* invoked; if parsing fails for any bound, construction fails with an error
\* at that bound's path and no Manifest exists.
C8_BoundsParsedOrAbsent ==
    pc # "raw" =>
        \A k \in ResourceFields :
            /\ Parsed(k) <=> Given(k)
            /\ Given(k) => [loc |-> <<"resources", k>>, text |-> GivenText(k)] \in quantity_calls
            /\ (Given(k) /\ Quantity(GivenText(k)) = Raised) =>
                  /\ pc = "invalid"
                  /\ manifest = NoManifest
                  /\ Err(<<"resources", k>>, "value_error") \in errors
            /\ pc = "valid" =>
                  manifest.f.resources.f[k] = IF Given(k) THEN Quantity(GivenText(k)) ELSE Null

\* C8 witness: cpu_min alone failed to parse, and no Manifest exists
C8_Witness ==
    /\ pc = "invalid"
    /\ manifest = NoManifest
    /\ errors = {Err(<<"resources", "cpu_min">>, "value_error")}
    /\ Given("memory_min") /\ Parsed("memory_min")
    /\ ~Has(doc.resources.m, "cpu_max") /\ ~Parsed("cpu_max")

BothStored(lo, hi) ==
    manifest.f.resources.f[lo] # Null /\ manifest.f.resources.f[hi] # Null

\* C9 as stated: in every validated ResourcesManifest whose pair of bounds
\* is present, memory_min <= memory_max and cpu_min <= cpu_max.
C9_MinNotAboveMax ==
    pc = "valid" =>
        /\ BothStored("memory_min", "memory_max") =>
              QuantityLeq(manifest.f.resources.f.memory_min, manifest.f.resources.f.memory_max)
        /\ BothStored("cpu_min", "cpu_max") =>
              QuantityLeq(manifest.f.resources.f.cpu_min, manifest.f.resources.f.cpu_max)

\* the bound k is given as a text with a suffix outside of the set S
SuffixOutside(k, S) ==
    /\ Given(k)
    /\ SuffixPart(GivenText(k)) # NoSuffix
    /\ SuffixPart(GivenText(k)) \notin S

\* C10 as stated: a memory bound is parsed against the memory suffixes only
\* and a CPU bound against the CPU suffixes only, so that no Manifest
\* exists whose bound carries a suffix of the other family.
C10_SuffixFamilyByField ==
    pc = "valid" =>
        /\ \A k \in MemoryFields : ~SuffixOutside(k, MemorySuffixes)
        /\ \A k \in CpuFields : ~SuffixOutside(k, CpuSuffixes)

====
